---- MODULE Spec2Model ----
(***************************************************************************)
(* Model of unox (src/unox.py): the Unison fsmonitor adapter.              *)
(*                                                                         *)
(* A Python string is a sequence of pieces.  A piece is one character      *)
(* wherever the code looks at characters (tokens, path separators, the     *)
(* characters quote() escapes) and a run of safe characters elsewhere.     *)
(***************************************************************************)
EXTENDS Integers, Sequences, FiniteSets, TLC

VARIABLES pc, replicas, watches, pending_reps, triggered_reps, in_debug,
          buf, out, err, exit_status, tty, last, recorded, root_event,
          cb, frame, notified, lost

\* pc            where the main thread waits: "handshake", "main" (the loop of
\*               main), "sub" (the loop of startReplicaMon) or "exited"
\* watches       the handlers the observer has scheduled
\* buf, out      stdout: the lines still in the buffer, and the lines the
\*               last step delivered to the client
\* err           the kinds of the stderr lines of the last step
\* tty           whether stdout is a terminal (line buffered)
\* last          the last step: the command or event, and the state before it
\* recorded      per replica, the paths given to triggerReplica since the
\*               replica's last drain
\* root_event    the replicas that got an event at their root directory,
\*               named without trailing separator, since their last drain
\* cb            the event callback in progress in the observer thread: where
\*               it is in triggerReplica, its handler, its path tokens and
\*               what its cur_lvl refers to
\* frame         the local variables of the main thread inside a handler
\* notified      the replicas a CHANGES notification was written for since
\*               the main loop read its last command
\* lost          the changes (replica, path tokens) that were recorded and
\*               then dropped without being reported
vars == <<pc, replicas, watches, pending_reps, triggered_reps, in_debug,
          buf, out, err, exit_status, tty, last, recorded, root_event,
          cb, frame, notified, lost>>

----------------------------------------------------------------------------
(* Bounds of the model *)

\* Number of change events recorded for one replica between two drains.
MaxEvents == 3

----------------------------------------------------------------------------
(* Strings *)

SEP == "/"

\* The replica hashes the client uses.
T1 == <<"r", "1">>
T2 == <<"%">>
Tokens == {T1, T2}

\* The directory the client asks to watch, as it may spell it.
RootDir == <<SEP, "a">>
StartPaths == {RootDir, RootDir \o <<SEP>>}

\* Paths of the change events the backend delivers, relative to the
\* directory it watches (the directory itself, with and without separator,
\* and entries below it).
EventLocals == { <<>>, <<SEP>>, <<SEP, "x">>, <<SEP, "x", SEP, "y">>,
                 <<SEP, "x", SEP, "z">> }

startswith(s, p) == Len(s) >= Len(p) /\ SubSeq(s, 1, Len(p)) = p

endswith(s, p) == Len(s) >= Len(p) /\ SubSeq(s, Len(s) - Len(p) + 1, Len(s)) = p

\* s[n:]
slice_from(s, n) == SubSeq(s, n + 1, Len(s))

\* urllib quote(): every character outside the safe set becomes %XX.
Escapes == [c \in {" ", "%", ":"} |->
              CASE c = " " -> <<"%", "2", "0">>
                [] c = "%" -> <<"%", "2", "5">>
                [] c = ":" -> <<"%", "3", "A">>]

RECURSIVE quote(_)
quote(s) ==
    IF s = <<>> THEN <<>>
    ELSE (IF Head(s) \in DOMAIN Escapes THEN Escapes[Head(s)] ELSE <<Head(s)>>)
         \o quote(Tail(s))

\* urllib unquote(): %XX becomes the character, anything else is kept.
RECURSIVE unquote(_)
unquote(s) ==
    IF s = <<>> THEN <<>>
    ELSE IF Head(s) = "%" /\ Len(s) >= 3
            /\ \E c \in DOMAIN Escapes : Escapes[c] = SubSeq(s, 1, 3)
         THEN <<CHOOSE c \in DOMAIN Escapes : Escapes[c] = SubSeq(s, 1, 3)>>
              \o unquote(SubSeq(s, 4, Len(s)))
         ELSE <<Head(s)>> \o unquote(Tail(s))

\* Iterating a Python string yields its characters as strings of length 1.
chars(s) == [i \in 1..Len(s) |-> <<s[i]>>]

\* path.split("/") keeping the non-empty parts.
RECURSIVE split_acc(_, _, _)
split_acc(s, cur, acc) ==
    IF s = <<>> THEN (IF cur = <<>> THEN acc ELSE Append(acc, cur))
    ELSE IF Head(s) = SEP
         THEN split_acc(Tail(s), <<>>, IF cur = <<>> THEN acc ELSE Append(acc, cur))
         ELSE split_acc(Tail(s), Append(cur, Head(s)), acc)

pathTokenize(path) == split_acc(path, <<>>, <<>>)

\* A join that forgets the separator between its parts.
path_join_nosep(a, b) == IF startswith(b, <<SEP>>) THEN b ELSE a \o b

\* os.path.join(a, b) of posixpath.
path_join(a, b) ==
    IF startswith(b, <<SEP>>) THEN b
    ELSE IF a = <<>> \/ endswith(a, <<SEP>>) THEN a \o b
    ELSE a \o <<SEP>> \o b

----------------------------------------------------------------------------
(* The trigger tree: True for a pending leaf, or a dict of path tokens. *)

NoKids == [k \in {} |-> TRUE]

PyTrue == [leaf |-> TRUE, kids |-> NoKids]

Dict(kids) == [leaf |-> FALSE, kids |-> kids]

\* d[k] = v
Put(d, k, v) == [x \in DOMAIN d \cup {k} |-> IF x = k THEN v ELSE d[x]]

\* del d[k]
Del(d, k) == [x \in DOMAIN d \ {k} |-> d[x]]


\* The path tokens the delivered events can name, and the orders in which
\* a dict may enumerate them (items() promises no order).
Segs == UNION { {pathTokenize(l)[i] : i \in 1..Len(pathTokenize(l))} : l \in EventLocals }

Orders == { o \in [1..Cardinality(Segs) -> Segs] :
              \A i, j \in 1..Cardinality(Segs) : o[i] = o[j] => i = j }

----------------------------------------------------------------------------
(* Output *)

Line(cmd, args) == [cmd |-> cmd, args |-> args]

\* The process state the functions below transform.
World == [pc |-> pc, replicas |-> replicas, watches |-> watches,
          pending_reps |-> pending_reps, triggered_reps |-> triggered_reps,
          in_debug |-> in_debug, buf |-> buf, out |-> <<>>, err |-> <<>>,
          exit_status |-> exit_status]

_debug(w) == [w EXCEPT !.err = Append(@, "DEBUG")]

debug_if(w) == IF w.in_debug THEN _debug(w) ELSE w

warn(w) == [w EXCEPT !.err = Append(@, "WARN")]

\* sys.stdout.flush()
flush(w) == [w EXCEPT !.out = @ \o w.buf, !.buf = <<>>]

\* sys.stdout.write(line + "\n"): a terminal is line buffered, anything
\* else keeps the line in the buffer until a flush.
stdout_write(w, line) ==
    LET w1 == [w EXCEPT !.buf = Append(@, line)]
    IN IF tty THEN flush(w1) ELSE w1

sendCmd(w, cmd, args) ==
    stdout_write(debug_if(w), Line(cmd, [i \in 1..Len(args) |-> quote(args[i])]))

\* An injected command that is written but not flushed.
injectCmd_noflush(w, cmd, args) == sendCmd(w, cmd, args)

injectCmd(w, cmd, args) == flush(sendCmd(w, cmd, args))

sendAck(w) == sendCmd(w, "OK", <<>>)

\* os._exit(n): the process ends at once; no finally block runs and the
\* stdout buffer is not written out.
os_exit(w, n) == [w EXCEPT !.pc = "exited", !.exit_status = n]

sendError(w, msg) == os_exit(sendCmd(w, "ERROR", <<msg>>), 1)

\* The finally block of __main__: every replica's watch is unscheduled.
finally(w) ==
    [w EXCEPT !.watches = @ \ {w.replicas[r].watch : r \in DOMAIN w.replicas}]

\* sys.exit(0) raised in the main thread: finally block, then the
\* interpreter shuts down and writes out the stdout buffer.
sys_exit(w, n) == [flush(finally(w)) EXCEPT !.pc = "exited", !.exit_status = n]

\* An exception nobody catches in the main thread (a ValueError of an
\* unpacking assignment): finally block, traceback on stderr, status 1.
uncaught(w) == [sys_exit(w, 1) EXCEPT !.err = Append(@, "TRACE")]

\* Texts of the ERROR replies.
MsgVersion(cmd) == <<"unexpected", " ", "version", " ", "cmd", ":", " ", cmd>>

MsgReplica(replica) == <<"unknown", " ", "replica", ":", " ">> \o replica

MsgLink == <<"link", " ", "following", " ", "is", " ", "not", " ", "supported">>

MsgStart(cmd) == <<"unexpected", " ", "cmd", " ", "in", " ", "replica", " ", "start", ":", " ", cmd>>

MsgRoot(cmd) == <<"unexpected", " ", "root", " ", "cmd", ":", " ", cmd>>

MsgBackend == <<"No", " ", "such", " ", "file">>

\* recvCmd() on a line that ends with a newline: the first word is the
\* command, the others are url decoded.
recvCmd(line) == [cmd |-> line.cmd, args |-> [i \in 1..Len(line.args) |-> unquote(line.args[i])]]

----------------------------------------------------------------------------
(* Recording a change *)

RECURSIVE Descend_keep(_, _)
\* A walk that marks the leaf only where the dict has no entry yet, so an
\* existing subtree is not replaced by True.
Descend_keep(cur_lvl, toks) ==
    IF cur_lvl.leaf THEN cur_lvl
    ELSE IF Len(toks) = 1
         THEN (IF toks[1] \in DOMAIN cur_lvl.kids THEN cur_lvl
               ELSE Dict(Put(cur_lvl.kids, toks[1], PyTrue)))
    ELSE LET new_lvl == IF Head(toks) \in DOMAIN cur_lvl.kids
                        THEN cur_lvl.kids[Head(toks)] ELSE Dict(NoKids)
         IN Dict(Put(cur_lvl.kids, Head(toks), Descend_keep(new_lvl, Tail(toks))))

RECURSIVE Descend(_, _)
\* Lines 162-175: walk the branches of local_path_toks from cur_lvl and
\* mark the leaf; a level that is True stops the walk.
Descend(cur_lvl, toks) ==
    IF cur_lvl.leaf THEN cur_lvl
    ELSE IF Len(toks) = 1 THEN Dict(Put(cur_lvl.kids, toks[1], PyTrue))
    ELSE LET new_lvl == IF Head(toks) \in DOMAIN cur_lvl.kids
                        THEN cur_lvl.kids[Head(toks)] ELSE Dict(NoKids)
         IN Dict(Put(cur_lvl.kids, Head(toks), Descend(new_lvl, Tail(toks))))

\* A triggerReplica that starts a fresh dict when the replica's tree is
\* True, splitting the marker back into branches.
triggerReplica_split(w, replica, local_path_toks) ==
    LET w1 == IF replica \in w.pending_reps
              THEN [injectCmd(w, "CHANGES", <<replica>>) EXCEPT !.pending_reps = {}]
              ELSE w
        cur_lvl == IF replica \notin DOMAIN w1.triggered_reps \/ w1.triggered_reps[replica].leaf
                   THEN Dict(NoKids) ELSE w1.triggered_reps[replica]
    IN IF Len(local_path_toks) = 0
       THEN [w1 EXCEPT !.triggered_reps = Put(@, replica, PyTrue)]
       ELSE [w1 EXCEPT !.triggered_reps = Put(@, replica, Descend(cur_lvl, local_path_toks))]

\* A triggerReplica that removes only the notified replica from
\* pending_reps.
triggerReplica_one(w, replica, local_path_toks) ==
    LET w1 == IF replica \in w.pending_reps
              THEN [injectCmd(w, "CHANGES", <<replica>>) EXCEPT !.pending_reps = @ \ {replica}]
              ELSE w
        cur_lvl == IF replica \notin DOMAIN w1.triggered_reps
                   THEN Dict(NoKids) ELSE w1.triggered_reps[replica]
    IN IF Len(local_path_toks) = 0
       THEN [w1 EXCEPT !.triggered_reps = Put(@, replica, PyTrue)]
       ELSE [w1 EXCEPT !.triggered_reps = Put(@, replica, Descend(cur_lvl, local_path_toks))]

triggerReplica(w, replica, local_path_toks) ==
    LET w1 == IF replica \in w.pending_reps
              THEN [injectCmd(w, "CHANGES", <<replica>>) EXCEPT !.pending_reps = {}]
              ELSE w
        cur_lvl == IF replica \notin DOMAIN w1.triggered_reps
                   THEN Dict(NoKids) ELSE w1.triggered_reps[replica]
    IN IF Len(local_path_toks) = 0
       THEN [w1 EXCEPT !.triggered_reps = Put(@, replica, PyTrue)]
       ELSE [w1 EXCEPT !.triggered_reps = Put(@, replica, Descend(cur_lvl, local_path_toks))]

\* Handler.dispatch: self is the handler (replica, fspath), path the
\* event's src_path.
dispatch(w, self, path) ==
    IF ~startswith(path, self.fspath) THEN warn(w)
    ELSE triggerReplica(debug_if(w), self.replica,
                        pathTokenize(slice_from(path, Len(self.fspath))))

----------------------------------------------------------------------------
(* Registration *)

Handler(fspath, replica) == [replica |-> replica, fspath |-> fspath]

\* A startReplicaMon without the test for a replica that is monitored
\* already.
startReplicaMon_again(w, replica, fspath, sched_ok) ==
    LET fspath2 == path_join(fspath, <<>>)
        w1 == debug_if(debug_if(w))
        watch == Handler(fspath2, replica)
    IN IF ~sched_ok THEN sendError(w1, MsgBackend)
       ELSE [sendAck([w1 EXCEPT !.watches = @ \cup {watch},
                                !.replicas = Put(@, replica, [watch |-> watch, fspath |-> fspath2])])
             EXCEPT !.pc = "sub"]

\* startReplicaMon up to the first recvCmd of its loop; sched_ok tells
\* whether observer.schedule succeeds.
startReplicaMon(w, replica, fspath, sched_ok) ==
    IF replica \notin DOMAIN w.replicas
    THEN LET fspath2 == path_join(fspath, <<>>)
             w1 == debug_if(debug_if(w))
             watch == Handler(fspath2, replica)
         IN IF ~sched_ok THEN sendError(w1, MsgBackend)
            ELSE [sendAck([w1 EXCEPT !.watches = @ \cup {watch},
                                     !.replicas = Put(@, replica, [watch |-> watch, fspath |-> fspath2])])
                  EXCEPT !.pc = "sub"]
    ELSE [sendAck(w) EXCEPT !.pc = "sub"]

----------------------------------------------------------------------------
(* Reporting *)

RECURSIVE reportRecursiveChanges(_, _, _, _)
RECURSIVE report_items(_, _, _, _, _)
\* The for loop of reportRecursiveChanges over the items i.. of the dict,
\* enumerated in the order ord.
report_items(w, local_path, kids, ord, i) ==
    IF i > Len(ord) THEN w
    ELSE IF ord[i] \notin DOMAIN kids THEN report_items(w, local_path, kids, ord, i + 1)
    ELSE report_items(reportRecursiveChanges(w, path_join(local_path, ord[i]), kids[ord[i]], ord),
                      local_path, kids, ord, i + 1)

reportRecursiveChanges(w, local_path, cur_lvl, ord) ==
    IF cur_lvl.leaf THEN sendCmd(w, "RECURSIVE", <<local_path>>)
    ELSE report_items(w, local_path, cur_lvl.kids, ord, 1)

----------------------------------------------------------------------------
(* The main loop: one operator per command, from the return of recvCmd to
   the next call of recvCmd *)

\* The version handshake of main(), lines 246-251.
handshake(w, c) ==
    IF c.cmd # "VERSION" THEN sendError(w, MsgVersion(c.cmd))
    ELSE IF Len(c.args) # 1 THEN uncaught(w)
    ELSE [(IF c.args[1] # <<"1">> THEN warn(w) ELSE w) EXCEPT !.pc = "main"]

\* A cancellation with the test inverted.
cancel_waits_inverted(w, cmd) == IF cmd = "WAIT" THEN [w EXCEPT !.pending_reps = {}] ELSE w

\* Lines 257-258.
cancel_waits(w, cmd) == IF cmd # "WAIT" THEN [w EXCEPT !.pending_reps = {}] ELSE w

cmdDEBUG(w) == [w EXCEPT !.in_debug = TRUE]

cmdSTART(w, args, sched_ok) ==
    IF Len(args) >= 3
    THEN (IF Len(args) = 3 THEN startReplicaMon(w, args[1], args[2], sched_ok) ELSE uncaught(w))
    ELSE (IF Len(args) = 2 THEN startReplicaMon(w, args[1], args[2], sched_ok) ELSE uncaught(w))

cmdWAIT(w, args) ==
    IF Len(args) # 1 THEN uncaught(w)
    ELSE LET replica == args[1]
         IN IF replica \notin DOMAIN w.replicas THEN sendError(w, MsgReplica(replica))
            ELSE IF replica \in DOMAIN w.triggered_reps
                 THEN [sendCmd(w, "CHANGES", chars(replica)) EXCEPT !.pending_reps = {}]
                 ELSE [w EXCEPT !.pending_reps = @ \cup {replica}]

\* A CHANGES handler that reports the tree and leaves it in place.
cmdCHANGES_keep(w, args, ord) ==
    IF Len(args) # 1 THEN uncaught(w)
    ELSE LET replica == args[1]
         IN IF replica \notin DOMAIN w.replicas THEN sendError(w, MsgReplica(replica))
            ELSE IF replica \in DOMAIN w.triggered_reps
                 THEN sendCmd(reportRecursiveChanges(w, <<>>, w.triggered_reps[replica], ord),
                              "DONE", <<>>)
                 ELSE sendCmd(w, "DONE", <<>>)

cmdCHANGES(w, args, ord) ==
    IF Len(args) # 1 THEN uncaught(w)
    ELSE LET replica == args[1]
         IN IF replica \notin DOMAIN w.replicas THEN sendError(w, MsgReplica(replica))
            ELSE IF replica \in DOMAIN w.triggered_reps
                 THEN sendCmd([reportRecursiveChanges(w, <<>>, w.triggered_reps[replica], ord)
                                 EXCEPT !.triggered_reps = Del(@, replica)],
                              "DONE", <<>>)
                 ELSE sendCmd(w, "DONE", <<>>)

\* A RESET that treats an unknown replica like WAIT and CHANGES do.
cmdRESET_strict(w, args) ==
    IF Len(args) # 1 THEN uncaught(w)
    ELSE LET replica == args[1]
         IN IF replica \notin DOMAIN w.replicas THEN sendError(w, MsgReplica(replica))
            ELSE [w EXCEPT !.watches = @ \ {w.replicas[replica].watch},
                           !.replicas = Del(@, replica),
                           !.triggered_reps = IF replica \in DOMAIN @ THEN Del(@, replica) ELSE @]

cmdRESET(w, args) ==
    IF Len(args) # 1 THEN uncaught(w)
    ELSE LET replica == args[1]
         IN IF replica \notin DOMAIN w.replicas THEN warn(w)
            ELSE [w EXCEPT !.watches = @ \ {w.replicas[replica].watch},
                           !.replicas = Del(@, replica),
                           !.triggered_reps = IF replica \in DOMAIN @ THEN Del(@, replica) ELSE @]

cmdOther(w, cmd) == sendError(w, MsgRoot(cmd))

\* The loop of startReplicaMon, lines 222-231.
\* A DIR that is not acknowledged.
subDIR_silent(w) == w

subDIR(w) == sendAck(w)

subLINK(w) == sendError(w, MsgLink)

subDONE(w) == [w EXCEPT !.pc = "main"]

subOther(w, cmd) == sendError(w, MsgStart(cmd))

\* recvCmd() finding the end of the stream, lines 125-128.
\* An end of stream that leaves through os._exit(0).
recvEOF_hard(w) == os_exit(debug_if(w), 0)

recvEOF(w) == sys_exit(debug_if(w), 0)

\* The start of the next recvCmd(): the flush before the read blocks.
next_recv(w) == IF w.pc = "exited" THEN w ELSE flush(w)

----------------------------------------------------------------------------
(* Inputs *)

HandshakeLines == { Line("VERSION", <<<<"1">>>>), Line("VERSION", <<<<"2">>>>),
                    Line("VERSION", <<>>), Line("VERSION", <<<<"1">>, <<"1">>>>),
                    Line("START", <<>>) }

TokenLines(cmd) == { Line(cmd, <<quote(t)>>) : t \in Tokens }

StartLines == { Line("START", <<quote(t), quote(p)>>) : t \in Tokens, p \in StartPaths }
              \cup { Line("START", <<quote(T1), quote(RootDir), <<"x">>>>) }

OtherCmds == {"FOO", "DONE"}

SubOtherCmds == {"FOO", "WAIT"}

\* The directory a watch is on, as the backend names it in src_path.
WatchedDir(fspath) ==
    IF endswith(fspath, <<SEP>>) THEN SubSeq(fspath, 1, Len(fspath) - 1) ELSE fspath

----------------------------------------------------------------------------
(* Actions *)

Step(op, args) == [op |-> op, at |-> pc, args |-> args, pend |-> pending_reps,
                   trig |-> DOMAIN triggered_reps, drained |-> {}, root |-> FALSE,
                   noted |-> notified]

InitLast == [op |-> "init", at |-> "init", args |-> <<>>, pend |-> {},
             trig |-> {}, drained |-> {}, root |-> FALSE, noted |-> {}]

\* No callback in progress.
CbIdle == [pc |-> "idle", self |-> Handler(<<>>, <<>>), path |-> <<>>, toks |-> <<>>,
           ref |-> "none", reported |-> FALSE]

\* The main thread is in no handler.
NoFrame == [step |-> InitLast, replica |-> <<>>, fspath |-> <<>>, tree |-> PyTrue]

CommitW(w) ==
    /\ pc' = w.pc
    /\ replicas' = w.replicas
    /\ watches' = w.watches
    /\ pending_reps' = w.pending_reps
    /\ triggered_reps' = w.triggered_reps
    /\ in_debug' = w.in_debug
    /\ buf' = w.buf
    /\ out' = w.out
    /\ err' = w.err
    /\ exit_status' = w.exit_status
    /\ tty' = tty

Commit4(w, l, rec, rootev) ==
    /\ CommitW(w)
    /\ last' = l
    /\ recorded' = rec
    /\ root_event' = rootev
    /\ UNCHANGED <<cb, frame, notified, lost>>

Commit(w, l, rec) == Commit4(w, l, rec, root_event)

Init ==
    /\ tty \in BOOLEAN
    /\ in_debug \in BOOLEAN
    /\ pc = "handshake"
    /\ replicas = NoKids
    /\ watches = {}
    /\ pending_reps = {}
    /\ triggered_reps = NoKids
    /\ buf = <<>>
    /\ out = <<Line("VERSION", <<<<"1">>>>)>>
    /\ err = IF in_debug THEN <<"DEBUG">> ELSE <<>>
    /\ exit_status = -1
    /\ last = InitLast
    /\ recorded = [t \in Tokens |-> {}]
    /\ root_event = {}
    /\ cb = CbIdle
    /\ frame = NoFrame
    /\ notified = {}
    /\ lost = {}

Handshake ==
    /\ pc = "handshake"
    /\ \E line \in HandshakeLines :
         Commit(next_recv(handshake(debug_if(World), recvCmd(line))),
                Step(line.cmd, recvCmd(line).args), recorded)

CmdDEBUG ==
    /\ pc = "main"
    /\ Commit(next_recv(cmdDEBUG(cancel_waits(debug_if(World), "DEBUG"))),
              Step("DEBUG", <<>>), recorded)

\* The main loop reads one of the given START lines.
StartWith(lines) ==
    /\ pc = "main"
    /\ \E line \in lines, sched_ok \in BOOLEAN :
         Commit(next_recv(cmdSTART(cancel_waits(debug_if(World), "START"),
                                   recvCmd(line).args, sched_ok)),
                Step("START", recvCmd(line).args), recorded)

CmdSTART == StartWith(StartLines \cup {Line("START", <<quote(T1)>>)})

CmdWAIT ==
    /\ pc = "main"
    /\ \E line \in TokenLines("WAIT") \cup {Line("WAIT", <<>>)} :
         Commit(next_recv(cmdWAIT(cancel_waits(debug_if(World), "WAIT"), recvCmd(line).args)),
                Step("WAIT", recvCmd(line).args), recorded)

CmdCHANGES ==
    /\ pc = "main"
    /\ \E line \in TokenLines("CHANGES"), ord \in Orders :
         LET args == recvCmd(line).args
             w == next_recv(cmdCHANGES(cancel_waits(debug_if(World), "CHANGES"), args, ord))
         IN Commit4(w, [Step("CHANGES", args) EXCEPT !.drained = recorded[args[1]],
                                                     !.root = args[1] \in root_event],
                    IF args[1] \in DOMAIN replicas
                    THEN [recorded EXCEPT ![args[1]] = {}] ELSE recorded,
                    IF args[1] \in DOMAIN replicas
                    THEN root_event \ {args[1]} ELSE root_event)

CmdRESET ==
    /\ pc = "main"
    /\ \E line \in TokenLines("RESET") :
         LET args == recvCmd(line).args
         IN Commit4(next_recv(cmdRESET(cancel_waits(debug_if(World), "RESET"), args)),
                    Step("RESET", args),
                    IF args[1] \in DOMAIN replicas
                    THEN [recorded EXCEPT ![args[1]] = {}] ELSE recorded,
                    IF args[1] \in DOMAIN replicas
                    THEN root_event \ {args[1]} ELSE root_event)

CmdOther ==
    /\ pc = "main"
    /\ \E cmd \in OtherCmds :
         Commit(next_recv(cmdOther(cancel_waits(debug_if(World), cmd), cmd)),
                Step(cmd, <<>>), recorded)

SubDIR ==
    /\ pc = "sub"
    /\ Commit(next_recv(subDIR(debug_if(World))), Step("DIR", <<>>), recorded)

SubLINK ==
    /\ pc = "sub"
    /\ Commit(next_recv(subLINK(debug_if(World))), Step("LINK", <<>>), recorded)

SubDONE ==
    /\ pc = "sub"
    /\ Commit(next_recv(subDONE(debug_if(World))), Step("DONE", <<>>), recorded)

SubOther ==
    /\ pc = "sub"
    /\ \E cmd \in SubOtherCmds :
         Commit(next_recv(subOther(debug_if(World), cmd)), Step(cmd, <<>>), recorded)

EndOfStream ==
    /\ pc \in {"handshake", "main", "sub"}
    /\ Commit(recvEOF(World), Step("EOF", <<>>), recorded)

\* The backend delivers an event to the handler of a scheduled watch while
\* the main thread is blocked in recvCmd().
FileEvent ==
    /\ pc \in {"handshake", "main", "sub"}
    /\ \E self \in watches, l \in EventLocals :
         LET path == WatchedDir(self.fspath) \o l
             toks == pathTokenize(slice_from(path, Len(self.fspath)))
             rec == startswith(path, self.fspath)
         IN /\ (rec /\ toks \notin recorded[self.replica])
                  => Cardinality(recorded[self.replica]) < MaxEvents
            /\ Commit4(dispatch(World, self, path),
                       Step("event", <<self.replica, path>>),
                       IF rec THEN [recorded EXCEPT ![self.replica] = @ \cup {toks}]
                       ELSE recorded,
                       IF path = WatchedDir(self.fspath)
                       THEN root_event \cup {self.replica} ELSE root_event)

Next ==
    \/ Handshake
    \/ CmdDEBUG
    \/ CmdSTART
    \/ CmdWAIT
    \/ CmdCHANGES
    \/ CmdRESET
    \/ CmdOther
    \/ SubDIR
    \/ SubLINK
    \/ SubDONE
    \/ SubOther
    \/ EndOfStream
    \/ FileEvent

Spec == Init /\ [][Next]_vars

----------------------------------------------------------------------------
(* The trigger tree alone: changes recorded for the registered replica T1
   over deeper paths, and drained by the CHANGES command *)

TreeSegs == {<<"x">>, <<"y">>}

TreePaths == {<<>>} \cup UNION { [1..n -> TreeSegs] : n \in 1..3 }

InitTree ==
    /\ tty \in BOOLEAN
    /\ in_debug = FALSE
    /\ pc = "main"
    /\ replicas = Put(NoKids, T1, [watch |-> Handler(RootDir \o <<SEP>>, T1),
                                   fspath |-> RootDir \o <<SEP>>])
    /\ watches = {Handler(RootDir \o <<SEP>>, T1)}
    /\ pending_reps = {}
    /\ triggered_reps = NoKids
    /\ buf = <<>>
    /\ out = <<>>
    /\ err = <<>>
    /\ exit_status = -1
    /\ last = InitLast
    /\ recorded = [t \in Tokens |-> {}]
    /\ root_event = {}
    /\ cb = CbIdle
    /\ frame = NoFrame
    /\ notified = {}
    /\ lost = {}

TreeRecord ==
    /\ pc = "main"
    /\ \E toks \in TreePaths :
         /\ toks \notin recorded[T1] => Cardinality(recorded[T1]) < MaxEvents
         /\ Commit(triggerReplica(World, T1, toks), Step("event", <<T1, toks>>),
                   [recorded EXCEPT ![T1] = @ \cup {toks}])

NextTree ==
    \/ TreeRecord
    \/ CmdCHANGES

SpecTree == InitTree /\ [][NextTree]_vars

----------------------------------------------------------------------------
(* The registry alone: replicas registered at two different directories,
   registered again and reset *)

RootDir2 == <<SEP, "b">>

RegStartLines == { Line("START", <<quote(t), quote(p)>>) : t \in Tokens, p \in {RootDir, RootDir2} }

RegSTART == StartWith(RegStartLines)

NextReg ==
    \/ Handshake
    \/ RegSTART
    \/ SubDIR
    \/ SubDONE
    \/ CmdRESET
    \/ EndOfStream

SpecReg == Init /\ [][NextReg]_vars

----------------------------------------------------------------------------
(* The threads interleaved: the observer thread runs Handler.dispatch while
   the main thread is inside a handler.  No lock orders the two, so a
   callback is four steps (the notification, the test of triggered_reps,
   the read of the replica's tree, the walk) and the handlers of START,
   WAIT, CHANGES and RESET are two steps each, split where they touch the
   shared dicts a second time.  stdout is a pipe. *)

ConcTokens == {T1}

ConcLines(cmd) == { Line(cmd, <<quote(t)>>) : t \in ConcTokens }

ConcStartLines == { Line("START", <<quote(t), quote(RootDir)>>) : t \in ConcTokens }

RECURSIVE Covers(_, _)
\* Whether the tree reports the path tokens or a directory above them.
Covers(tree, toks) ==
    \/ tree.leaf
    \/ /\ toks # <<>>
       /\ Head(toks) \in DOMAIN tree.kids
       /\ Covers(tree.kids[Head(toks)], Tail(toks))

\* del triggered_reps[replica] in the main thread: a cur_lvl of the
\* callback that refers to that tree now refers to a dict nobody reports.
Detach(c, replica, reported) ==
    IF c.self.replica = replica /\ c.ref = "attached"
    THEN [c EXCEPT !.ref = "detached", !.reported = reported]
    ELSE c

CommitC(w, l, rec, c, fr, nt, ls) ==
    /\ CommitW(w)
    /\ last' = l
    /\ recorded' = rec
    /\ root_event' = root_event
    /\ cb' = c
    /\ frame' = fr
    /\ notified' = nt
    /\ lost' = ls

InitConc ==
    /\ tty = FALSE
    /\ in_debug = FALSE
    /\ pc = "main"
    /\ replicas = NoKids
    /\ watches = {}
    /\ pending_reps = {}
    /\ triggered_reps = NoKids
    /\ buf = <<>>
    /\ out = <<>>
    /\ err = <<>>
    /\ exit_status = -1
    /\ last = [InitLast EXCEPT !.op = "VERSION", !.at = "handshake", !.args = <<<<"1">>>>]
    /\ recorded = [t \in Tokens |-> {}]
    /\ root_event = {}
    /\ cb = CbIdle
    /\ frame = NoFrame
    /\ notified = {}
    /\ lost = {}

\* Lines 148-151 of triggerReplica.
notify_pending(w, replica) ==
    IF replica \in w.pending_reps
    THEN [injectCmd(w, "CHANGES", <<replica>>) EXCEPT !.pending_reps = {}]
    ELSE w

\* Handler.dispatch up to the notification of triggerReplica, lines 184-192
\* and 146-151.
CbDispatch ==
    /\ pc # "exited"
    /\ cb.pc = "idle"
    /\ \E self \in watches, l \in EventLocals :
         LET path == WatchedDir(self.fspath) \o l
             toks == pathTokenize(slice_from(path, Len(self.fspath)))
             l1 == Step("event", <<self.replica, path>>)
         IN IF ~startswith(path, self.fspath)
            THEN CommitC(warn(World), l1, recorded, cb, frame, notified, lost)
            ELSE /\ toks \notin recorded[self.replica]
                      => Cardinality(recorded[self.replica]) < MaxEvents
                 /\ CommitC(notify_pending(debug_if(World), self.replica), l1, recorded,
                            [CbIdle EXCEPT !.pc = "check", !.self = self,
                                           !.path = path, !.toks = toks],
                            frame,
                            IF self.replica \in pending_reps
                            THEN notified \cup {self.replica} ELSE notified,
                            lost)

\* Lines 153-158: the root case, and the test of triggered_reps with the
\* store of a new dict.
CbCheck ==
    /\ pc # "exited"
    /\ cb.pc = "check"
    /\ LET replica == cb.self.replica
           l1 == Step("event", <<replica, cb.path>>)
       IN IF Len(cb.toks) = 0
          THEN CommitC([World EXCEPT !.triggered_reps = Put(@, replica, PyTrue)], l1,
                       [recorded EXCEPT ![replica] = @ \cup {cb.toks}],
                       CbIdle, frame, notified, lost)
          ELSE IF replica \notin DOMAIN triggered_reps
          THEN CommitC([World EXCEPT !.triggered_reps = Put(@, replica, Dict(NoKids))], l1,
                       recorded, [cb EXCEPT !.pc = "walk", !.ref = "attached"],
                       frame, notified, lost)
          ELSE CommitC(World, l1, recorded, [cb EXCEPT !.pc = "read"], frame, notified, lost)

\* Line 160: cur_lvl = triggered_reps[replica].  A KeyError reaches the
\* except clause of dispatch, lines 193-199.
CbRead ==
    /\ pc # "exited"
    /\ cb.pc = "read"
    /\ LET replica == cb.self.replica
           l1 == Step("event", <<replica, cb.path>>)
       IN IF replica \in DOMAIN triggered_reps
          THEN CommitC(World, l1, recorded,
                       [cb EXCEPT !.pc = "walk",
                                  !.ref = IF triggered_reps[replica].leaf
                                          THEN "true" ELSE "attached"],
                       frame, notified, lost)
          ELSE CommitC(os_exit([World EXCEPT !.err = Append(@, "TRACE")], 1), l1,
                       recorded, CbIdle, frame, notified, lost)

\* Lines 161-176: the walk from cur_lvl and the mark of the leaf.
CbWalk ==
    /\ pc # "exited"
    /\ cb.pc = "walk"
    /\ LET replica == cb.self.replica
           l1 == Step("event", <<replica, cb.path>>)
       IN CASE cb.ref = "attached" ->
                 CommitC([World EXCEPT !.triggered_reps =
                              Put(@, replica, Descend(triggered_reps[replica], cb.toks))],
                         l1, [recorded EXCEPT ![replica] = @ \cup {cb.toks}],
                         CbIdle, frame, notified, lost)
            [] cb.ref = "true" ->
                 CommitC(World, l1, recorded, CbIdle, frame, notified, lost)
            [] cb.ref = "detached" ->
                 CommitC(World, l1, recorded, CbIdle, frame, notified,
                         IF cb.reported THEN lost ELSE lost \cup {<<replica, cb.toks>>})

\* START, lines 255-214: up to observer.schedule.
ConcSTART1 ==
    /\ pc = "main"
    /\ \E line \in ConcStartLines, sched_ok \in BOOLEAN :
         LET args == recvCmd(line).args
             w0 == cancel_waits(debug_if(World), "START")
             l1 == Step("START", args)
             fspath2 == path_join(args[2], <<>>)
         IN IF args[1] \in DOMAIN replicas
            THEN CommitC(next_recv([sendAck(w0) EXCEPT !.pc = "sub"]), l1, recorded,
                         cb, frame, {}, lost)
            ELSE IF ~sched_ok
            THEN CommitC(sendError(debug_if(debug_if(w0)), MsgBackend), l1, recorded,
                         cb, frame, {}, lost)
            ELSE CommitC([debug_if(debug_if(w0)) EXCEPT
                            !.watches = @ \cup {Handler(fspath2, args[1])},
                            !.pc = "start2"],
                         l1, recorded, cb,
                         [NoFrame EXCEPT !.step = l1, !.replica = args[1], !.fspath = fspath2],
                         {}, lost)

\* START, lines 217-223: the store into replicas and the acknowledgment.
ConcSTART2 ==
    /\ pc = "start2"
    /\ CommitC(next_recv([sendAck([World EXCEPT !.replicas =
                                      Put(@, frame.replica,
                                          [watch |-> Handler(frame.fspath, frame.replica),
                                           fspath |-> frame.fspath])])
                          EXCEPT !.pc = "sub"]),
               frame.step, recorded, cb, NoFrame, notified, lost)

\* DONE in the loop of startReplicaMon.
ConcDONE ==
    /\ pc = "sub"
    /\ CommitC(next_recv(subDONE(debug_if(World))), Step("DONE", <<>>), recorded,
               cb, frame, {}, lost)

\* WAIT, lines 255-278: up to the test of triggered_reps.
ConcWAIT1 ==
    /\ pc = "main"
    /\ \E line \in ConcLines("WAIT") :
         LET args == recvCmd(line).args
             w0 == cancel_waits(debug_if(World), "WAIT")
             l1 == Step("WAIT", args)
         IN IF args[1] \notin DOMAIN replicas
            THEN CommitC(sendError(w0, MsgReplica(args[1])), l1, recorded, cb, frame, {}, lost)
            ELSE IF args[1] \in DOMAIN triggered_reps
            THEN CommitC(next_recv([sendCmd(w0, "CHANGES", chars(args[1]))
                                      EXCEPT !.pending_reps = {}]),
                         l1, recorded, cb, frame, {args[1]}, lost)
            ELSE CommitC([w0 EXCEPT !.pc = "wait2"], l1, recorded, cb,
                         [NoFrame EXCEPT !.step = l1, !.replica = args[1]], {}, lost)

\* WAIT, line 281: pending_reps[replica] = True.
ConcWAIT2 ==
    /\ pc = "wait2"
    /\ CommitC(next_recv([World EXCEPT !.pending_reps = @ \cup {frame.replica},
                                       !.pc = "main"]),
               frame.step, recorded, cb, NoFrame, notified, lost)

\* CHANGES, lines 255-289: up to the end of reportRecursiveChanges.
ConcCHANGES1 ==
    /\ pc = "main"
    /\ \E line \in ConcLines("CHANGES"), ord \in Orders :
         LET args == recvCmd(line).args
             w0 == cancel_waits(debug_if(World), "CHANGES")
             l1 == [Step("CHANGES", args) EXCEPT !.drained = recorded[args[1]]]
         IN IF args[1] \notin DOMAIN replicas
            THEN CommitC(sendError(w0, MsgReplica(args[1])), l1, recorded, cb, frame, {}, lost)
            ELSE IF args[1] \in DOMAIN triggered_reps
            THEN CommitC([reportRecursiveChanges(w0, <<>>, triggered_reps[args[1]], ord)
                            EXCEPT !.pc = "changes2"],
                         l1, recorded, cb,
                         [NoFrame EXCEPT !.step = l1, !.replica = args[1],
                                         !.tree = triggered_reps[args[1]]],
                         {}, lost)
            ELSE CommitC(next_recv(sendCmd(w0, "DONE", <<>>)), l1, recorded, cb, frame, {}, lost)

\* CHANGES, lines 290-292: del triggered_reps[replica] and DONE.
ConcCHANGES2 ==
    /\ pc = "changes2"
    /\ LET r == frame.replica
       IN IF r \notin DOMAIN triggered_reps
          THEN CommitC(uncaught(World), frame.step, recorded, cb, NoFrame, notified, lost)
          ELSE CommitC(next_recv(sendCmd([World EXCEPT !.triggered_reps = Del(@, r),
                                                       !.pc = "main"], "DONE", <<>>)),
                       frame.step, [recorded EXCEPT ![r] = {}],
                       Detach(cb, r, Covers(frame.tree, cb.toks)), NoFrame, notified,
                       lost \cup {<<r, p>> : p \in {q \in recorded[r] : ~Covers(frame.tree, q)}})

\* RESET, lines 255-301: up to observer.unschedule.
ConcRESET1 ==
    /\ pc = "main"
    /\ \E line \in ConcLines("RESET") :
         LET args == recvCmd(line).args
             w0 == cancel_waits(debug_if(World), "RESET")
             l1 == Step("RESET", args)
         IN IF args[1] \notin DOMAIN replicas
            THEN CommitC(next_recv(warn(w0)), l1, recorded, cb, frame, {}, lost)
            ELSE CommitC([w0 EXCEPT !.watches = @ \ {replicas[args[1]].watch},
                                    !.pc = "reset2"],
                         l1, recorded, cb,
                         [NoFrame EXCEPT !.step = l1, !.replica = args[1]], {}, lost)

\* RESET, lines 302-305: the deletes from replicas and triggered_reps.
ConcRESET2 ==
    /\ pc = "reset2"
    /\ LET r == frame.replica
       IN CommitC(next_recv([World EXCEPT
                               !.replicas = Del(@, r),
                               !.triggered_reps = IF r \in DOMAIN @ THEN Del(@, r) ELSE @,
                               !.pc = "main"]),
                  frame.step, [recorded EXCEPT ![r] = {}],
                  IF r \in DOMAIN triggered_reps THEN Detach(cb, r, TRUE) ELSE cb,
                  NoFrame, notified, lost)

NextConc ==
    \/ CbDispatch
    \/ CbCheck
    \/ CbRead
    \/ CbWalk
    \/ ConcSTART1
    \/ ConcSTART2
    \/ ConcDONE
    \/ ConcWAIT1
    \/ ConcWAIT2
    \/ ConcCHANGES1
    \/ ConcCHANGES2
    \/ ConcRESET1
    \/ ConcRESET2

SpecConc == InitConc /\ [][NextConc]_vars

----------------------------------------------------------------------------
(* Properties *)

Range(f) == {f[i] : i \in DOMAIN f}

IsPrefix(p, q) == Len(p) <= Len(q) /\ SubSeq(q, 1, Len(p)) = p

\* The last step was a CHANGES query the main loop answered.
Queried == last.op = "CHANGES" /\ last.at = "main" /\ pc = "main"

\* The RECURSIVE lines the last step delivered, and the path tokens of the
\* i-th of them.
RecLines == SelectSeq(out, LAMBDA l : l.cmd = "RECURSIVE")

Emitted(i) == pathTokenize(unquote(RecLines[i].args[1]))

DoneLine == Line("DONE", <<>>)

RecursiveLine(path) == Line("RECURSIVE", <<quote(path)>>)

\* C1: a CHANGES query after any sequence of recorded changes emits
\* RECURSIVE paths that (1) cover every recorded path, (2) are recorded
\* paths themselves, (3) are not nested in one another and (4) are not
\* repeated.
C1_DrainMinimalCover ==
    Queried =>
      /\ \A p \in last.drained : \E i \in DOMAIN RecLines : IsPrefix(Emitted(i), p)
      /\ \A i \in DOMAIN RecLines : Emitted(i) \in last.drained
      /\ \A i, j \in DOMAIN RecLines :
           i # j => ~IsPrefix(Emitted(i), Emitted(j)) /\ RecLines[i] # RecLines[j]
      /\ out = RecLines \o <<DoneLine>>

\* A drain of three recorded paths of which one is below another.
C1_Witness ==
    /\ Queried
    /\ Cardinality(last.drained) = 3
    /\ \E p, q \in last.drained : p # q /\ IsPrefix(p, q)
    /\ Len(RecLines) = 2

XY == <<<<"x">>, <<"y">>>>

XZ == <<<<"x">>, <<"z">>>>

\* C2 as stated: after events for x/y and x/z only, the CHANGES query
\* emits the single line RECURSIVE x, then DONE.
C2_SiblingsCollapse ==
    (Queried /\ last.args = <<T1>> /\ last.drained = {XY, XZ} /\ ~last.root)
      => out = <<RecursiveLine(<<"x">>), DoneLine>>

\* C2 amended: after events for x/y and x/z only, the CHANGES query emits
\* the two lines RECURSIVE x/y and RECURSIVE x/z, in either order, then
\* DONE.
C2_SiblingsReported ==
    (Queried /\ last.args = <<T1>> /\ last.drained = {XY, XZ} /\ ~last.root)
      => \/ out = <<RecursiveLine(<<"x", SEP, "y">>), RecursiveLine(<<"x", SEP, "z">>), DoneLine>>
         \/ out = <<RecursiveLine(<<"x", SEP, "z">>), RecursiveLine(<<"x", SEP, "y">>), DoneLine>>

C2_Witness ==
    /\ Queried /\ last.args = <<T1>> /\ last.drained = {XY, XZ} /\ ~last.root
    /\ Len(RecLines) = 2

\* C3: after an event at the replica's root directory, named without the
\* trailing separator, the CHANGES query emits RECURSIVE with the empty
\* path, then DONE.
C3_RootEventReported ==
    (Queried /\ last.root) => out = <<RecursiveLine(<<>>), DoneLine>>

\* C4: when the empty path was recorded at any position since the last
\* drain, the CHANGES query emits exactly the empty path.
C4_RootSubsumesAll ==
    (Queried /\ <<>> \in last.drained) => out = <<RecursiveLine(<<>>), DoneLine>>

\* A drain after the empty path and two finer paths were recorded.
C4_Witness ==
    /\ Queried
    /\ <<>> \in last.drained
    /\ Cardinality(last.drained) = 3
    /\ Len(RecLines) = 1

\* C5: a CHANGES query of a replica without a trigger tree emits DONE
\* alone, and after any CHANGES query the replica has no trigger tree.
C5_DrainExhausts ==
    Queried =>
      /\ last.args[1] \notin DOMAIN triggered_reps
      /\ last.args[1] \notin last.trig => out = <<DoneLine>>

\* Both kinds of query have happened: one that found no tree, and (for the
\* other replica, still to be drained) a tree is pending.
C5_Witness ==
    /\ Queried
    /\ last.args[1] \notin last.trig
    /\ out = <<DoneLine>>
    /\ DOMAIN triggered_reps # {}

\* C6: WAIT for a replica with a trigger tree emits the line CHANGES with
\* the encoded token as its one argument and leaves no pending wait.
C6_WaitNotifiesToken ==
    (last.op = "WAIT" /\ last.at = "main" /\ pc = "main" /\ Len(last.args) = 1
       /\ last.args[1] \in last.trig)
      => /\ out = <<Line("CHANGES", <<quote(last.args[1])>>)>>
         /\ pending_reps = {}

\* The event of the last step was at a path below the root of its replica.
EventBelowRoot ==
    /\ last.op = "event"
    /\ last.args[1] \in DOMAIN replicas
    /\ startswith(last.args[2], replicas[last.args[1]].fspath)
    /\ Len(last.args[2]) > Len(replicas[last.args[1]].fspath)

\* An event below the root of a waited-on replica delivers CHANGES token
\* to the client in the same step.
PushOnEvent ==
    (EventBelowRoot /\ last.args[1] \in last.pend)
      => /\ out = <<Line("CHANGES", <<quote(last.args[1])>>)>>
         /\ buf = <<>>

\* C7 as stated: an event below the root of a waited-on replica pushes
\* CHANGES token, and a wait leaves the Pending-Wait Set only by such an
\* event of its own replica or by a client command.
C7_WaitUntilOwnEvent ==
    /\ PushOnEvent
    /\ \A r \in last.pend \ pending_reps :
         /\ last.op # "EOF"
         /\ last.op = "event" => last.args[1] = r

\* C7 amended: an event below the root of a waited-on replica pushes
\* CHANGES token, and a wait leaves the Pending-Wait Set only by an event
\* of some waited-on replica or by a client command.
C7_WaitUntilEvent ==
    /\ PushOnEvent
    /\ \A r \in last.pend \ pending_reps :
         /\ last.op # "EOF"
         /\ last.op = "event" => last.args[1] \in last.pend

C7_Witness ==
    /\ EventBelowRoot
    /\ last.pend = {last.args[1]}
    /\ pending_reps = {}
    /\ out = <<Line("CHANGES", <<quote(last.args[1])>>)>>
    /\ ~tty

\* The last step was a command the main loop read.
MainCommand == last.at = "main" /\ last.op \notin {"event", "EOF"}

\* C8: after any main-loop command other than WAIT the Pending-Wait Set
\* is empty, and only a WAIT command makes it non-empty.
C8_NonWaitClearsPending ==
    /\ (MainCommand /\ last.op # "WAIT") => pending_reps = {}
    /\ (last.pend = {} /\ pending_reps # {}) => (MainCommand /\ last.op = "WAIT")

\* A command other than WAIT found a wait outstanding.
C8_Witness ==
    /\ MainCommand
    /\ last.op \in {"DEBUG", "RESET"}
    /\ last.pend # {}
    /\ pending_reps = {}
    /\ pc = "main"

\* The process ended in sendError.
FatalError == pc = "exited" /\ exit_status = 1 /\ "TRACE" \notin Range(err)

\* C9: when the process ends by a fatal protocol error the client has
\* been delivered the ERROR line and the exit status is not zero.
C9_ErrorDelivered ==
    FatalError => /\ \E i \in DOMAIN out : out[i].cmd = "ERROR"
                  /\ exit_status # 0

\* C10: when the process has exited, no registered replica's watch is
\* still scheduled.
C10_WatchesReleased ==
    pc = "exited" => \A r \in DOMAIN replicas : replicas[r].watch \notin watches

\* The lines the last step wrote to stdout, delivered or not.
Written == out \o buf

NoErrorLine == \A i \in DOMAIN Written : Written[i].cmd # "ERROR"

\* C11: a VERSION reply without exactly one argument is answered with an
\* ERROR line and a non-zero exit; a VERSION reply with one argument other
\* than the adapter's version is only warned about and the main loop
\* starts.
C11_VersionArity ==
    (last.op = "VERSION" /\ last.at = "handshake") =>
      IF Len(last.args) # 1
      THEN /\ pc = "exited"
           /\ exit_status # 0
           /\ ~NoErrorLine
      ELSE /\ pc = "main"
           /\ NoErrorLine
           /\ last.args[1] # <<"1">> => "WARN" \in Range(err)

OkLine == Line("OK", <<>>)

\* A step of the registration of a replica that went well.
InRegistration(op, at) == last.op = op /\ last.at = at /\ pc \in {"main", "sub"}

\* C12 as stated: START itself emits no OK, every DIR emits one OK, and
\* DONE emits the one OK that acknowledges the registration.
C12_AckAtDone ==
    /\ (InRegistration("START", "main") /\ pc = "sub") => out = <<>>
    /\ InRegistration("DIR", "sub") => out = <<OkLine>>
    /\ InRegistration("DONE", "sub") => out = <<OkLine>>

\* C12 amended: START emits the one OK that acknowledges the
\* registration, every DIR emits one OK, and DONE emits nothing.
C12_AckAtStart ==
    /\ (InRegistration("START", "main") /\ pc = "sub") => out = <<OkLine>>
    /\ InRegistration("DIR", "sub") => out = <<OkLine>>
    /\ InRegistration("DONE", "sub") => out = <<>> /\ buf = <<>> /\ pc = "main"

\* The sub-loop has just answered a DIR.
C12_Witness == InRegistration("DIR", "sub") /\ out = <<OkLine>> /\ pc = "sub"

\* C13: RESET of a token that is not registered writes no ERROR line,
\* does not end the process, leaves the registry, the watches and the
\* trigger trees as they are, and the main loop reads the next command.
C13_ResetUnknownBenign ==
    [][(last'.op = "RESET" /\ last'.at = "main" /\ Len(last'.args) = 1
          /\ last'.args[1] \notin DOMAIN replicas)
        => /\ pc' = "main"
           /\ exit_status' = -1
           /\ \A i \in DOMAIN (out' \o buf') : (out' \o buf')[i].cmd # "ERROR"
           /\ replicas' = replicas
           /\ watches' = watches
           /\ triggered_reps' = triggered_reps]_vars

\* RESET of an unknown token while another replica is registered and has
\* a trigger tree.
C13_Witness ==
    /\ last.op = "RESET" /\ last.at = "main"
    /\ "WARN" \in Range(err)
    /\ last.args[1] \notin DOMAIN replicas
    /\ DOMAIN replicas # {}
    /\ DOMAIN triggered_reps # {}
    /\ pc = "main"

\* C14: the end of the input stream, in any protocol state, writes no
\* ERROR line, releases the watch of every registered replica and ends the
\* process with status 0.
C14_EndOfStreamClean ==
    last.op = "EOF" =>
      /\ pc = "exited"
      /\ exit_status = 0
      /\ NoErrorLine
      /\ buf = <<>>
      /\ \A r \in DOMAIN replicas : replicas[r].watch \notin watches

\* The stream ended in the registration sub-loop with two replicas
\* registered.
C14_Witness ==
    /\ last.op = "EOF" /\ last.at = "sub"
    /\ Cardinality(DOMAIN replicas) = 2
    /\ pc = "exited"

\* The event of the last step reached triggerReplica.
EventRecorded ==
    /\ last.op = "event"
    /\ last.args[1] \in DOMAIN replicas
    /\ startswith(last.args[2], replicas[last.args[1]].fspath)

\* C16: an event for a waited-on replica emits one CHANGES line for it and
\* empties the whole Pending-Wait Set; an event for a replica that is not
\* waited on (any more) emits nothing.
C16_PushClearsAll ==
    EventRecorded =>
      IF last.args[1] \in last.pend
      THEN out = <<Line("CHANGES", <<quote(last.args[1])>>)>> /\ pending_reps = {}
      ELSE out = <<>> /\ pending_reps = last.pend

\* Both replicas were waited on when the event came.
C16_Witness ==
    /\ EventRecorded
    /\ last.pend = Tokens
    /\ pending_reps = {}
    /\ Len(out) = 1

\* C17: START of a token that is registered already leaves the registry
\* and the watches as they are, whatever root path it names, and while the
\* process runs the watches held are exactly one per registered token.
C17_StartIdempotent ==
    /\ [][(last'.op = "START" /\ last'.at = "main" /\ Len(last'.args) \in {2, 3}
             /\ last'.args[1] \in DOMAIN replicas)
           => /\ replicas' = replicas
              /\ watches' = watches
              /\ pc' = "sub"]_vars
    /\ [](pc # "exited" =>
            /\ Cardinality(watches) = Cardinality(DOMAIN replicas)
            /\ watches = {replicas[r].watch : r \in DOMAIN replicas})

\* A START that named another root path than the one the token is
\* registered with.
C17_Witness ==
    /\ last.op = "START" /\ last.at = "main" /\ pc = "sub"
    /\ last.args[1] \in DOMAIN replicas
    /\ replicas[last.args[1]].fspath # path_join(last.args[2], <<>>)
    /\ Cardinality(DOMAIN replicas) = 2

\* C15: under every interleaving of a callback with the handlers of the
\* main loop, no recorded change of a registered replica is dropped without
\* being reported, and no callback ends the process by a fault.
C15_NoLossNoFault ==
    /\ lost = {}
    /\ ~(pc = "exited" /\ last.op = "event")

\* C18: whenever the main loop waits for a command and no callback is in
\* progress, no waited-on replica has a non-empty trigger tree.
C18_NoMissedWakeup ==
    (pc \in {"main", "sub"} /\ cb.pc = "idle") =>
      \A r \in pending_reps :
         r \notin DOMAIN triggered_reps \/ triggered_reps[r] = Dict(NoKids)

\* C19: a CHANGES query that is the first command after a CHANGES
\* notification for its replica reports at least one RECURSIVE line.
C19_NotifiedHasChanges ==
    (Queried /\ last.args[1] \in last.noted) => Len(RecLines) >= 1

\* C20: every token that has a trigger tree is a registered token.
C20_TreesOfRegistered == DOMAIN triggered_reps \subseteq DOMAIN replicas

====
